---- MODULE Spec2Model ----
(***************************************************************************)
(* Payment-event reconciliation of the ShopIt backend:                     *)
(* controllers/PaymentController.js (paymentProcess, checkOutSession,      *)
(* paymentVerify) against the order and product collections and the        *)
(* payment provider.                                                       *)
(*                                                                         *)
(* Every `await` of the controller is one step: the awaited operation      *)
(* takes effect and the code up to the next `await` runs with it.  Steps   *)
(* of different requests and of the per-item callbacks of one request      *)
(* interleave freely, as the event loop allows.                            *)
(***************************************************************************)
EXTENDS Integers, Sequences, FiniteSets, TLC

(* ------------------------------ bounds -------------------------------- *)
\* webhook deliveries handled
MaxReq == 2
\* checkout sessions requested through paymentProcess
MaxCalls == 1
\* store or provider operations that fail
MaxFail == 1
\* stock every product starts with
InitStock == 2

(* ------------------------------ inputs -------------------------------- *)
Products == {"P1", "P2"}
\* P9 is a reference to a product that is not in the product collection
ProductRefs == Products \cup {"P9"}
KnownUsers == {"B1"}
UserIds == KnownUsers \cup {"B0"}
Price(p) == CASE p = "P1" -> 1000 [] p = "P2" -> 50 [] OTHER -> 5
Discount(p) == CASE p = "P1" -> 10 [] p = "P2" -> 55 [] OTHER -> 0

Item(p, q, price, discount) ==
    [_id |-> p, size |-> "M", color |-> "red", quantity |-> q,
     price |-> price, discount |-> discount, title |-> p]

\* one unit of P1; more of P2 than is in stock; one unit of the missing P9
ItemA == Item("P1", 1, Price("P1"), Discount("P1"))
ItemB == Item("P2", InitStock + 3, Price("P2"), Discount("P2"))
ItemC == Item("P9", 1, Price("P9"), Discount("P9"))

\* the carts buyers check out
Carts == {<<ItemA>>, <<ItemA, ItemA>>, <<ItemA, ItemB>>, <<ItemB, ItemC>>}

Max(a, b) == IF a >= b THEN a ELSE b

(* ---------------- JavaScript numbers (IEEE-754 doubles) ---------------- *)
(* A non-negative double is [m |-> bits, e |-> k]: the binary integer m,   *)
(* most significant bit first and at most Precision bits long, times 2^k.  *)
(* Every operation computes the exact result on the bits and rounds it to  *)
(* the nearest double, ties to even, as the language does.  The bits are   *)
(* worked on Chunk bits at a time, so that no intermediate integer leaves  *)
(* the range of the checker's integers.                                    *)
Precision == 53
Chunk == 8

Zeros(n) == [i \in 1..n |-> 0]

\* the w lowest bits of n, most significant first
ToBits(n, w) == [i \in 1..w |-> (n \div 2^(w - i)) % 2]

\* b without its leading zeros
Strip(b) ==
    IF \A i \in 1..Len(b) : b[i] = 0 THEN <<>>
    ELSE LET k == CHOOSE i \in 1..Len(b) :
                      b[i] = 1 /\ \A j \in 1..(i - 1) : b[j] = 0
         IN  SubSeq(b, k, Len(b))

Bits(n) == Strip(ToBits(n, 30))

\* the last w bits of b (all of b when it is shorter) and the bits before them
LastBits(b, w) == SubSeq(b, Max(Len(b) - w, 0) + 1, Len(b))
FrontBits(b, w) == SubSeq(b, 1, Max(Len(b) - w, 0))

\* the number b spells, for b of at most Chunk bits
Value8(b) ==
    LET bit(i) == IF i < Len(b) THEN b[Len(b) - i] ELSE 0
    IN  bit(0) + 2 * bit(1) + 4 * bit(2) + 8 * bit(3)
          + 16 * bit(4) + 32 * bit(5) + 64 * bit(6) + 128 * bit(7)

RECURSIVE Value(_)
Value(b) ==
    IF Len(b) <= Chunk THEN Value8(b)
    ELSE 2^Chunk * Value(FrontBits(b, Chunk)) + Value8(LastBits(b, Chunk))

\* b + 1
Inc(b) ==
    IF \A i \in 1..Len(b) : b[i] = 1 THEN <<1>> \o Zeros(Len(b))
    ELSE LET k == CHOOSE i \in 1..Len(b) :
                      b[i] = 0 /\ \A j \in (i + 1)..Len(b) : b[j] = 1
         IN  [i \in 1..Len(b) |-> IF i < k THEN b[i] ELSE IF i = k THEN 1 ELSE 0]

\* The exact value bits * 2^e (plus a non-zero rest below the last bit when
\* sticky), rounded to the nearest double.
RoundBits(bits, e, sticky) ==
    LET b == Strip(bits)
        n == Len(b)
    IN  IF n <= Precision THEN [m |-> b, e |-> e]
        ELSE LET keep == SubSeq(b, 1, Precision)
                 rest == sticky \/ \E i \in (Precision + 2)..n : b[i] = 1
                 up   == b[Precision + 1] = 1 /\ (rest \/ keep[Precision] = 1)
                 r    == IF up THEN Inc(keep) ELSE keep
             IN  IF Len(r) > Precision
                 THEN [m |-> SubSeq(r, 1, Precision), e |-> e + (n - Precision) + 1]
                 ELSE [m |-> r, e |-> e + (n - Precision)]

FromInt(n) == [m |-> Bits(n), e |-> 0]

\* the first n * Chunk bits after the binary point of r / d, for r < d
RECURSIVE DivBits(_, _, _)
DivBits(r, d, n) ==
    IF n = 0 THEN <<>>
    ELSE LET t == r * 2^Chunk
         IN  ToBits(t \div d, Chunk) \o DivBits(t % d, d, n - 1)

\* what is left of r after those bits
RECURSIVE DivRem(_, _, _)
DivRem(r, d, n) == IF n = 0 THEN r ELSE DivRem((r * 2^Chunk) % d, d, n - 1)

\* n / d for small naturals n and d: the double nearest to the quotient
Divide(n, d) ==
    LET k == 8
    IN  RoundBits(Bits(n \div d) \o DivBits(n % d, d, k), 0 - k * Chunk,
                  DivRem(n % d, d, k) # 0)

RECURSIVE MulAcc(_, _, _)
MulAcc(b, p, carry) ==
    IF b = <<>> THEN Bits(carry)
    ELSE LET t == Value8(LastBits(b, Chunk)) * p + carry
             w == IF Len(b) < Chunk THEN Len(b) ELSE Chunk
         IN  MulAcc(FrontBits(b, Chunk), p, t \div 2^w) \o ToBits(t % 2^w, w)

\* p * x for a small natural p and a double x
Times(p, x) == RoundBits(MulAcc(x.m, p, 0), x.e, FALSE)

\* a - b - borrow for bit strings of one length, a >= b
RECURSIVE SubAcc(_, _, _)
SubAcc(a, b, borrow) ==
    IF a = <<>> THEN <<>>
    ELSE LET t == Value8(LastBits(a, Chunk)) - Value8(LastBits(b, Chunk)) - borrow
             w == IF Len(a) < Chunk THEN Len(a) ELSE Chunk
         IN  SubAcc(FrontBits(a, Chunk), FrontBits(b, Chunk), IF t < 0 THEN 1 ELSE 0)
                 \o ToBits(IF t < 0 THEN t + 2^w ELSE t, w)

\* x - y for doubles x >= y >= 0
Minus(x, y) ==
    LET e  == IF x.e < y.e THEN x.e ELSE y.e
        xb == x.m \o Zeros(x.e - e)
        yb == y.m \o Zeros(y.e - e)
        n  == Max(Len(xb), Len(yb))
    IN  RoundBits(SubAcc(Zeros(n - Len(xb)) \o xb, Zeros(n - Len(yb)) \o yb, 0),
                  e, FALSE)

\* Math.round of a double x >= 0: the integer nearest to x, halves upwards
MathRound(x) ==
    IF x.e >= 0 THEN Value(x.m \o Zeros(x.e))
    ELSE LET n == Len(x.m)
             f == 0 - x.e
         IN  IF n < f THEN 0
             ELSE Value(SubSeq(x.m, 1, n - f)) + x.m[n - f + 1]

(* ------------------------------- state -------------------------------- *)
VARIABLES
    stock,       \* ProductModel: stock of every product
    orders,      \* OrderModel: the order documents; req and idx name the
                 \* delivery and line item that created each (0: neither)
    customers,   \* provider: customer records
    sessions,    \* provider: checkout sessions
    calls,       \* paymentProcess: one record per call, with its response
    verifyResp,  \* paymentVerify: the response of the last call
    request,     \* checkOutSession: the request of each delivery
    before,      \* the deliveries that had finished when each one arrived
    pc,          \* checkOutSession: where each delivery's handler is
    event,       \* checkOutSession: local `event`
    cart,        \* checkOutSession: local `customer` after JSON.parse
    cb,          \* checkOutSession: the forEach callbacks of each delivery
    resp,        \* checkOutSession: statuses the handler tried to send
    writes,      \* stock updates performed, as <<delivery, line item>>
    fails        \* operations that failed so far

vars == <<stock, orders, customers, sessions, calls, verifyResp,
          request, before, pc, event, cart, cb, resp, writes, fails>>

Reqs == 1..MaxReq
NoEvent == [id |-> 0, type |-> "none", customer |-> 0, address |-> "none"]
NoRequest == [sig |-> "none", body |-> NoEvent]
NoResp == [status |-> 0, body |-> "none"]
NoUser == [_id |-> "none", email |-> "none"]

\* An order that exists before reconciliation; its review flag was set by the
\* review flow.
PriorOrder ==
    [productId |-> "P1", userId |-> "B1", size |-> "M", color |-> "red",
     quantities |-> 1, address |-> "A0", review |-> TRUE, req |-> 0, idx |-> 0]

Init ==
    /\ stock = [p \in Products |-> InitStock]
    /\ orders = {PriorOrder}
    /\ customers = <<>>
    /\ sessions = <<>>
    /\ calls = <<>>
    /\ verifyResp = NoResp
    /\ request = [r \in Reqs |-> NoRequest]
    /\ before = [r \in Reqs |-> {}]
    /\ pc = [r \in Reqs |-> "idle"]
    /\ event = [r \in Reqs |-> NoEvent]
    /\ cart = [r \in Reqs |-> <<>>]
    /\ cb = [r \in Reqs |-> <<>>]
    /\ resp = [r \in Reqs |-> <<>>]
    /\ writes = {}
    /\ fails = 0


(* --------------------------- paymentProcess --------------------------- *)
\* FindUser finding a buyer for every identifier
FindUserAny(id) == [_id |-> id, email |-> id]

\* User.findOne({ _id: id })
FindUser(id) == IF id \in KnownUsers THEN [_id |-> id, email |-> id] ELSE NoUser

\* orderData with the size and the color of every entry exchanged
orderDataSwapped(cartIn, user) ==
    [i \in 1..Len(cartIn) |->
        [_id |-> cartIn[i]._id, size |-> cartIn[i].color, color |-> cartIn[i].size,
         quantity |-> cartIn[i].quantity, userId |-> user._id]]

orderData(cartIn, user) ==
    [i \in 1..Len(cartIn) |->
        [_id |-> cartIn[i]._id, size |-> cartIn[i].size, color |-> cartIn[i].color,
         quantity |-> cartIn[i].quantity, userId |-> user._id]]

\* JSON.stringify of the order data: per entry the values of _id, size, color,
\* quantity and userId, in that order
JSONStringify(data) ==
    [i \in 1..Len(data) |->
        <<data[i]._id, data[i].size, data[i].color, data[i].quantity, data[i].userId>>]

\* Number.prototype.toFixed(2) of an integer: its digits, then ".00"
toFixed2(n) == [whole |-> n, decimals |-> <<0, 0>>]

actualPrice(item) ==
    LET percentage == Divide(item.discount, 100)
    IN  MathRound(Minus(FromInt(item.price), Times(item.price, percentage)))

lineItem(item) ==
    [name |-> item.title,
     unit_amount_decimal |-> toFixed2(actualPrice(item) * 100),
     quantity |-> item.quantity]

Call(id, cartIn, status, customer, session) ==
    [id |-> id, cart |-> cartIn, status |-> status, customer |-> customer,
     session |-> session]

\* paymentProcess recording the orders itself when the session is created
paymentProcessCreatesOrders(cartIn, id) ==
    /\ Len(calls) < MaxCalls
    /\ FindUser(id) # NoUser
    /\ calls' = Append(calls, Call(id, cartIn, 200, 0, 0))
    /\ orders' = orders \cup
           {[productId |-> cartIn[i]._id, userId |-> id, size |-> cartIn[i].size,
             color |-> cartIn[i].color, quantities |-> cartIn[i].quantity,
             address |-> "none", review |-> FALSE, req |-> 0, idx |-> i] :
                i \in DOMAIN cartIn}
    /\ UNCHANGED <<stock, customers, sessions, verifyResp, request, before, pc,
                   event, cart, cb, resp, writes, fails>>

\* One call of paymentProcess.  Status 0 is a call that answered nothing: a
\* provider operation rejected and the handler's promise with it.
paymentProcess(cartIn, id) ==
    /\ Len(calls) < MaxCalls
    /\ LET user == FindUser(id)
           customer == [email |-> user.email,
                        metadata |-> [cart |-> JSONStringify(orderData(cartIn, user))]]
           session == [customer |-> Len(customers) + 1,
                       line_items |-> [i \in 1..Len(cartIn) |-> lineItem(cartIn[i])],
                       payment_status |-> "unpaid"]
       IN  \/ /\ user = NoUser
              /\ calls' = Append(calls, Call(id, cartIn, 404, 0, 0))
              /\ UNCHANGED <<customers, sessions, fails>>
           \/ /\ user # NoUser
              /\ fails < MaxFail
              /\ fails' = fails + 1
              /\ calls' = Append(calls, Call(id, cartIn, 0, 0, 0))
              /\ UNCHANGED <<customers, sessions>>
           \/ /\ user # NoUser
              /\ fails < MaxFail
              /\ fails' = fails + 1
              /\ customers' = Append(customers, customer)
              /\ calls' = Append(calls, Call(id, cartIn, 0, Len(customers) + 1, 0))
              /\ UNCHANGED sessions
           \/ /\ user # NoUser
              /\ customers' = Append(customers, customer)
              /\ sessions' = Append(sessions, session)
              /\ calls' = Append(calls,
                     Call(id, cartIn, 200, Len(customers) + 1, Len(sessions) + 1))
              /\ UNCHANGED fails
    /\ UNCHANGED <<stock, orders, verifyResp, request, before, pc, event,
                   cart, cb, resp, writes>>

(* ---------------------------- paymentVerify --------------------------- *)
\* The query reads the provider's sessions alone and writes nothing a delivery
\* reads, so it commutes with every step of a delivery: the queries are taken
\* before the first delivery, which reaches every combination there is.
paymentVerify(id) ==
    /\ id \in DOMAIN sessions \cup {0}
    /\ \A r \in Reqs : pc[r] = "idle"
    /\ verifyResp' = IF id \in DOMAIN sessions
                     THEN [status |-> 200, body |-> sessions[id].payment_status]
                     ELSE [status |-> 500, body |-> "error"]
    /\ verifyResp' # verifyResp
    /\ UNCHANGED <<stock, orders, customers, sessions, calls, request, before,
                   pc, event, cart, cb, resp, writes, fails>>

(* ------------------------------ provider ------------------------------ *)
\* The buyer completes the checkout of session s at the provider.
CompleteCheckout(s) ==
    /\ s \in DOMAIN sessions
    /\ sessions[s].payment_status = "unpaid"
    /\ sessions' = [sessions EXCEPT ![s].payment_status = "paid"]
    /\ UNCHANGED <<stock, orders, customers, calls, verifyResp, request,
                   before, pc, event, cart, cb, resp, writes, fails>>

Completed == "checkout.session.completed"

\* The events the provider may deliver, any number of times each: the completion
\* of a checkout session of this shop, the completion of a checkout whose
\* customer carries no cart metadata, that of one whose cart metadata is not
\* JSON, and events of other types.
OtherEvents ==
    {[id |-> 90, type |-> Completed, customer |-> 0, address |-> "A1"],
     [id |-> 93, type |-> Completed, customer |-> 0 - 1, address |-> "A1"],
     [id |-> 91, type |-> "payment_intent.succeeded", customer |-> 0, address |-> "none"],
     [id |-> 92, type |-> "charge.succeeded", customer |-> 0, address |-> "none"]}

Events ==
    {[id |-> s, type |-> Completed, customer |-> sessions[s].customer,
      address |-> "A1"] : s \in {t \in DOMAIN sessions : sessions[t].payment_status = "paid"}}
    \cup OtherEvents

\* every request body a delivery may carry, whatever the sessions are
Bodies ==
    {[id |-> s, type |-> Completed, customer |-> c, address |-> "A1"] :
         s \in 1..MaxCalls, c \in 1..MaxCalls}
    \cup OtherEvents

\* a cart blob that is not JSON
Garbled == <<<<"{">>>>

\* stripe.customers.retrieve: a customer this shop did not create has no cart,
\* or one that paymentProcess did not write
RetrieveCustomer(ref) ==
    IF ref \in DOMAIN customers THEN customers[ref]
    ELSE IF ref = 0 THEN [email |-> "none", metadata |-> <<>>]
    ELSE [email |-> "none", metadata |-> [cart |-> Garbled]]

(* --------------------------- checkOutSession -------------------------- *)
\* constructEvent without the comparison of the signature
constructEventUnverified(req) == req.body

\* stripe.webhooks.constructEvent: the event of the body when the signature
\* matches it, NoEvent for the error it throws otherwise
constructEvent(req) == IF req.sig = "valid" THEN req.body ELSE NoEvent

\* JSON.parse of a cart blob written by JSONStringify
JSONParse(text) ==
    [i \in 1..Len(text) |->
        [_id |-> text[i][1], size |-> text[i][2], color |-> text[i][3],
         quantity |-> text[i][4], userId |-> text[i][5]]]

HasCart(customer) == "cart" \in DOMAIN customer.metadata

\* the text is JSON: every entry spells its five values
Parsable(text) == \A i \in DOMAIN text : Len(text[i]) = 5

\* line 126 with the error of the parse swallowed and an empty cart in its place
ParseCartLenient(customer) ==
    IF HasCart(customer) /\ Parsable(customer.metadata.cart)
    THEN [ok |-> TRUE, value |-> JSONParse(customer.metadata.cart)]
    ELSE [ok |-> TRUE, value |-> <<>>]

\* JSON.parse(customer?.metadata?.cart): the parsed cart, or the SyntaxError it
\* throws for undefined and for text that is not JSON (ok false)
ParseCart(customer) ==
    IF HasCart(customer) /\ Parsable(customer.metadata.cart)
    THEN [ok |-> TRUE, value |-> JSONParse(customer.metadata.cart)]
    ELSE [ok |-> FALSE, value |-> <<>>]

\* findOrder without the productId in the query
findOrderAnyProduct(productId, userId) ==
    \E o \in orders : o.userId = userId /\ o.review = TRUE

\* findOrder without the filter on the review flag
findOrderAnyReview(productId, userId) ==
    \E o \in orders : o.productId = productId /\ o.userId = userId

\* OrderModel.findOne({productId, userId}).where("review").equals(true)
findOrder(productId, userId) ==
    \E o \in orders :
        /\ o.productId = productId
        /\ o.userId = userId
        /\ o.review = TRUE

NewOrder(ctr, data, reviewStatus, r, i) ==
    [productId |-> ctr._id, userId |-> ctr.userId, size |-> ctr.size,
     color |-> ctr.color, quantities |-> ctr.quantity, address |-> data.address,
     review |-> reviewStatus, req |-> r, idx |-> i]

\* NewStock without Math.max
NewStockUnclamped(current, quantity) == current - quantity

NewStock(current, quantity) == Max(current - quantity, 0)

\* a callback that goes to the stock adjustment at once, with no Order created
NewCallbackStockFirst == [pc |-> "findProduct", reviewStatus |-> FALSE, stock |-> 0]

\* the callback of one entry, run to its first await (line 134)
NewCallback == [pc |-> "findOrder", reviewStatus |-> FALSE, stock |-> 0]

\* A delivery has finished: its handler returned or rejected and none of its
\* callbacks is still running.
Finished(q) ==
    /\ pc[q] \in {"done", "rejected"}
    /\ \A i \in DOMAIN cb[q] : cb[q][i].pc \in {"done", "failed"}

\* the switch with the break of the first case missing
CaseCompletedFallThrough(type) == type \in {"payment_intent.succeeded", Completed}

\* switch (event.type): the types that run the body of the case
\* "checkout.session.completed"
CaseCompleted(type) == type = Completed

\* The handler up to its first await: verification, dispatch on the event type,
\* and for the other types the acknowledgment.
checkOutSession(r, req) ==
    /\ req.body \in Events
    /\ pc[r] = "idle"
    /\ \A q \in Reqs : q < r => pc[q] # "idle"
    /\ request' = [request EXCEPT ![r] = req]
    /\ before' = [before EXCEPT ![r] = {q \in Reqs : Finished(q)}]
    /\ LET ev == constructEvent(req)
       IN  IF ev = NoEvent
           THEN /\ resp' = [resp EXCEPT ![r] = <<400>>]
                /\ pc' = [pc EXCEPT ![r] = "done"]
                /\ UNCHANGED event
           ELSE IF CaseCompleted(ev.type)
           THEN /\ event' = [event EXCEPT ![r] = ev]
                /\ pc' = [pc EXCEPT ![r] = "retrieve"]
                /\ UNCHANGED resp
           ELSE /\ event' = [event EXCEPT ![r] = ev]
                /\ resp' = [resp EXCEPT ![r] = <<200>>]
                /\ pc' = [pc EXCEPT ![r] = "done"]
    /\ UNCHANGED <<stock, orders, customers, sessions, calls, verifyResp,
                   cart, cb, writes, fails>>

\* customersRetrieve starting the callbacks and leaving the acknowledgment
\* until they have ended
customersRetrieveDefersSend(r) ==
    /\ pc[r] = "retrieve"
    /\ LET customer == ParseCart(RetrieveCustomer(event[r].customer))
       IN  /\ customer.ok
           /\ cart' = [cart EXCEPT ![r] = customer.value]
           /\ cb' = [cb EXCEPT ![r] =
                         [i \in 1..Len(customer.value) |-> NewCallback]]
           /\ pc' = [pc EXCEPT ![r] = "done"]
    /\ UNCHANGED <<stock, orders, customers, sessions, calls, verifyResp,
                   request, before, event, resp, writes, fails>>

\* stripe.customers.retrieve resolves or rejects; JSON.parse; forEach starts one
\* callback per entry, each running to its first await; response.send().
customersRetrieve(r) ==
    /\ pc[r] = "retrieve"
    /\ LET customer == ParseCart(RetrieveCustomer(event[r].customer))
       IN  \/ /\ fails < MaxFail
              /\ fails' = fails + 1
              /\ pc' = [pc EXCEPT ![r] = "rejected"]
              /\ UNCHANGED <<cart, cb, resp>>
           \/ /\ ~customer.ok
              /\ pc' = [pc EXCEPT ![r] = "rejected"]
              /\ UNCHANGED <<cart, cb, resp, fails>>
           \/ /\ customer.ok
              /\ cart' = [cart EXCEPT ![r] = customer.value]
              /\ cb' = [cb EXCEPT ![r] =
                            [i \in 1..Len(customer.value) |-> NewCallback]]
              /\ resp' = [resp EXCEPT ![r] = Append(resp[r], 200)]
              /\ pc' = [pc EXCEPT ![r] = "done"]
              /\ UNCHANGED fails
    /\ UNCHANGED <<stock, orders, customers, sessions, calls, verifyResp,
                   request, before, event, writes>>

Running(r, i, at) == i \in DOMAIN cb[r] /\ cb[r][i].pc = at

\* ItemError ending every callback of the delivery that is still running
ItemErrorAbortsAll(r, i) ==
    /\ fails < MaxFail
    /\ fails' = fails + 1
    /\ cb' = [cb EXCEPT ![r] =
                 [j \in DOMAIN cb[r] |->
                     IF cb[r][j].pc = "done" THEN cb[r][j]
                     ELSE [cb[r][j] EXCEPT !.pc = "failed"]]]
    /\ resp' = [resp EXCEPT ![r] = Append(resp[r], 500)]
    /\ UNCHANGED <<stock, orders, writes>>

\* The catch of callback i: a store operation rejected.
ItemError(r, i) ==
    /\ fails < MaxFail
    /\ fails' = fails + 1
    /\ cb' = [cb EXCEPT ![r][i].pc = "failed"]
    /\ resp' = [resp EXCEPT ![r] = Append(resp[r], 500)]
    /\ UNCHANGED <<stock, orders, writes>>

\* await OrderModel.findOne(...)
ItemFindOrder(r, i) ==
    /\ Running(r, i, "findOrder")
    /\ \/ ItemError(r, i)
       \/ /\ cb' = [cb EXCEPT ![r][i].reviewStatus =
                                  findOrder(cart[r][i]._id, cart[r][i].userId),
                              ![r][i].pc = "create"]
          /\ UNCHANGED <<stock, orders, resp, writes, fails>>
    /\ UNCHANGED <<customers, sessions, calls, verifyResp, request, before, pc,
                   event, cart>>

\* await OrderModel.create(...)
ItemCreateOrder(r, i) ==
    /\ Running(r, i, "create")
    /\ \/ ItemError(r, i)
       \/ /\ orders' = orders \cup
                 {NewOrder(cart[r][i], event[r], cb[r][i].reviewStatus, r, i)}
          /\ cb' = [cb EXCEPT ![r][i].pc = "findProduct"]
          /\ UNCHANGED <<stock, resp, writes, fails>>
    /\ UNCHANGED <<customers, sessions, calls, verifyResp, request, before, pc,
                   event, cart>>

\* ItemFindProduct without the test of line 157: product.stock of a product
\* that was not found throws, and the catch answers
ItemFindProductUnguarded(r, i) ==
    /\ Running(r, i, "findProduct")
    /\ IF cart[r][i]._id \in Products
       THEN /\ cb' = [cb EXCEPT ![r][i].stock =
                                    NewStock(stock[cart[r][i]._id], cart[r][i].quantity),
                                ![r][i].pc = "update"]
            /\ UNCHANGED resp
       ELSE /\ cb' = [cb EXCEPT ![r][i].pc = "failed"]
            /\ resp' = [resp EXCEPT ![r] = Append(resp[r], 500)]
    /\ UNCHANGED <<stock, orders, writes, fails, customers, sessions, calls,
                   verifyResp, request, before, pc, event, cart>>

\* await ProductModel.findOne({ _id: ctr._id })
ItemFindProduct(r, i) ==
    /\ Running(r, i, "findProduct")
    /\ \/ ItemError(r, i)
       \/ /\ cb' = IF cart[r][i]._id \in Products
                   THEN [cb EXCEPT ![r][i].stock =
                                       NewStock(stock[cart[r][i]._id], cart[r][i].quantity),
                                   ![r][i].pc = "update"]
                   ELSE [cb EXCEPT ![r][i].pc = "done"]
          /\ UNCHANGED <<stock, orders, resp, writes, fails>>
    /\ UNCHANGED <<customers, sessions, calls, verifyResp, request, before, pc,
                   event, cart>>

\* await ProductModel.findByIdAndUpdate(ctr._id, { stock })
ItemUpdateStock(r, i) ==
    /\ Running(r, i, "update")
    /\ \/ ItemError(r, i)
       \/ /\ stock' = [stock EXCEPT ![cart[r][i]._id] = cb[r][i].stock]
          /\ writes' = writes \cup {<<r, i>>}
          /\ cb' = [cb EXCEPT ![r][i].pc = "done"]
          /\ UNCHANGED <<orders, resp, fails>>
    /\ UNCHANGED <<customers, sessions, calls, verifyResp, request, before, pc,
                   event, cart>>

(* ---------------------------- specification --------------------------- *)
\* the positions a cart has
Positions == UNION {DOMAIN c : c \in Carts}

Next ==
    \/ \E c \in Carts, id \in UserIds : paymentProcess(c, id)
    \/ \E id \in 0..MaxCalls : paymentVerify(id)
    \/ \E s \in 1..MaxCalls : CompleteCheckout(s)
    \/ \E r \in Reqs, sig \in {"valid", "invalid"}, e \in Bodies :
           checkOutSession(r, [sig |-> sig, body |-> e])
    \/ \E r \in Reqs : customersRetrieve(r)
    \/ \E r \in Reqs, i \in Positions : ItemFindOrder(r, i)
    \/ \E r \in Reqs, i \in Positions : ItemCreateOrder(r, i)
    \/ \E r \in Reqs, i \in Positions : ItemFindProduct(r, i)
    \/ \E r \in Reqs, i \in Positions : ItemUpdateStock(r, i)

Spec == Init /\ [][Next]_vars

(* ------------------------------- claims ------------------------------- *)
\* Delivery r handles a checkout-completed event and has its cart.
Reconciles(r) == event[r].type = Completed /\ cb[r] # <<>>

\* Delivery r finished without any operation failing.
Succeeded(r) ==
    /\ Reconciles(r)
    /\ pc[r] = "done"
    /\ \A i \in DOMAIN cb[r] : cb[r][i].pc = "done"

\* Delivery r carries an event that an earlier delivery q had already
\* reconciled to the end when r arrived.
Redelivery(q, r) ==
    /\ q \in before[r]
    /\ event[q] = event[r]
    /\ Succeeded(q)

\* Deliveries q and r carry the same event and q was still being handled when
\* r arrived.
Overlap(q, r) ==
    /\ q < r
    /\ q \notin before[r]
    /\ event[q] = event[r]
    /\ Reconciles(q)
    /\ Reconciles(r)

\* C1: a delivery of an event that was delivered and reconciled before creates
\* no Order and changes no product's stock: none of its steps changes the
\* orders or the stock.
C1_RedeliveryChangesNothing ==
    [][\A r \in Reqs :
          ((\E q \in Reqs : Redelivery(q, r)) /\ cb'[r] # cb[r])
              => (orders' = orders /\ stock' = stock)]_vars

\* C2: two overlapping deliveries of one event leave at most one Order and at
\* most one stock decrement per line item.
C2_OverlapOneEffect ==
    \A q \in Reqs : \A r \in Reqs :
        Overlap(q, r) =>
            \A i \in DOMAIN cb[r] :
                /\ ~(\E o1 \in orders, o2 \in orders :
                        /\ o1.req = q /\ o1.idx = i
                        /\ o2.req = r /\ o2.idx = i)
                /\ ~(<<q, i>> \in writes /\ <<r, i>> \in writes)

\* the quantities of the stock decrements done for product p
Decrements(p) == {w \in writes : cart[w[1]][w[2]]._id = p}

RECURSIVE SumQuantity(_)
SumQuantity(W) ==
    IF W = {} THEN 0
    ELSE LET w == CHOOSE x \in W : TRUE
         IN  cart[w[1]][w[2]].quantity + SumQuantity(W \ {w})

\* C3: the stock of every product is max(0, original stock - sum of the
\* quantities of the decrements completed for it).
C3_StockIsOriginalMinusSum ==
    \A p \in Products :
        stock[p] = Max(0, InitStock - SumQuantity(Decrements(p)))

\* C4: the stock of every product is at least zero in every reachable state.
C4_StockNeverNegative == \A p \in Products : stock[p] >= 0

\* a line item asking for more than there ever was has been decremented, and
\* its product's stock is zero
C4_Witness ==
    \E w \in writes :
        /\ cart[w[1]][w[2]].quantity > InitStock
        /\ stock[cart[w[1]][w[2]]._id] = 0

\* C5: no step increases the stock of any product.
C5_StockNeverIncreases == [][\A p \in Products : stock'[p] <= stock[p]]_vars

\* C6: a delivery whose signature verified is answered 200 by the time its
\* handler has ended, whatever the event and whatever happens downstream; a
\* delivery answered 400 is one whose verification failed.
C6_VerifiedIsAcknowledged ==
    \A r \in Reqs :
        /\ (request[r].sig = "valid" /\ pc[r] \in {"done", "rejected"})
               => (resp[r] # <<>> /\ resp[r][1] = 200)
        /\ (resp[r] # <<>> /\ resp[r][1] = 400) => request[r].sig = "invalid"

\* C7: a delivery whose signature does not verify is answered 400 and nothing
\* else happens for it: no event, no customer, no callback, no Order, no stock
\* update.
C7_UnverifiedIsRejected ==
    \A r \in Reqs :
        request[r].sig = "invalid" =>
            /\ resp[r] = <<400>>
            /\ pc[r] = "done"
            /\ event[r] = NoEvent
            /\ cart[r] = <<>>
            /\ cb[r] = <<>>
            /\ ~(\E o \in orders : o.req = r)
            /\ ~(\E w \in writes : w[1] = r)

\* an unverified delivery that carried the completed event of a paid session
C7_Witness ==
    \E r \in Reqs :
        /\ request[r].sig = "invalid"
        /\ request[r].body.type = Completed
        /\ request[r].body.customer \in DOMAIN customers
        /\ resp[r] = <<400>>

\* an Order for exactly (productId, userId) with review eligibility true
Eligible(productId, userId) ==
    \E o \in orders : o.productId = productId /\ o.userId = userId /\ o.review

\* C8: the lookup of a line item finds eligibility exactly when an eligible
\* Order for its (product, buyer) exists at that moment, and the Order then
\* created for the line item carries what the lookup found.
C8_EligibilityFromLookup ==
    [][\A r \in Reqs : \A i \in DOMAIN cb[r] :
          /\ (cb[r][i].pc = "findOrder" /\ cb'[r][i].pc = "create")
                 => (cb'[r][i].reviewStatus
                         <=> Eligible(cart[r][i]._id, cart[r][i].userId))
          /\ (cb[r][i].pc = "create" /\ cb'[r][i].pc = "findProduct")
                 => \E o \in orders' \ orders :
                        /\ o.req = r /\ o.idx = i
                        /\ o.productId = cart[r][i]._id
                        /\ o.userId = cart[r][i].userId
                        /\ o.review = cb[r][i].reviewStatus]_vars

\* the Reconciler created an eligible Order and an ineligible one
C8_Witness ==
    /\ \E o \in orders : o.req # 0 /\ o.review
    /\ \E o \in orders : o.req # 0 /\ ~o.review

\* the integer a unit_amount_decimal text spells, when it has no fraction
AsInteger(text) == IF text.decimals = <<0, 0>> THEN text.whole ELSE 0 - 1

\* round(price - price * discount / 100) in exact arithmetic, halves upwards
ExactRound(price, discount) == (price * (100 - discount) + 50) \div 100

\* C9: the unit amount sent for every line item is the integer
\* round(price - price * discount / 100), 900 for price 1000 and discount 10.
C9_UnitAmountIsExactRound ==
    \A k \in DOMAIN calls :
        calls[k].session # 0 =>
            \A i \in DOMAIN calls[k].cart :
                AsInteger(sessions[calls[k].session].line_items[i].unit_amount_decimal)
                    = ExactRound(calls[k].cart[i].price, calls[k].cart[i].discount)

\* The same with the amount taken as a hundred times the rounded price, which
\* is what the multiplication by 100 makes of it: the rounding is still not
\* exact (price 50 at discount 55 is sent as 2200, the exact half 22.5 being
\* 22.499999999999996 in doubles).
C9_UnitAmountIsHundredTimesExactRound ==
    \A k \in DOMAIN calls :
        calls[k].session # 0 =>
            \A i \in DOMAIN calls[k].cart :
                AsInteger(sessions[calls[k].session].line_items[i].unit_amount_decimal)
                    = 100 * ExactRound(calls[k].cart[i].price, calls[k].cart[i].discount)

\* the call of paymentProcess that created the customer of delivery r's event
IntentOf(r) == CHOOSE k \in DOMAIN calls : calls[k].customer = request[r].body.customer

\* C10: a delivery of a completed checkout that ran to the end without a
\* failure has created exactly one Order per line item of the cart given to
\* paymentProcess, with that item's product, size, color and quantity, the
\* buyer of the call and the address of the event; and no delivery ever has
\* two Orders for one line item.
C10_OneOrderPerLineItem ==
    \A r \in Reqs :
        /\ \A o1 \in orders, o2 \in orders :
               (o1.req = r /\ o2.req = r /\ o1.idx = o2.idx) => o1 = o2
        /\ Succeeded(r) =>
               LET call == calls[IntentOf(r)]
               IN  /\ Cardinality({o \in orders : o.req = r}) = Len(call.cart)
                   /\ \A i \in DOMAIN call.cart :
                          \E o \in orders :
                              /\ o.req = r /\ o.idx = i
                              /\ o.productId = call.cart[i]._id
                              /\ o.userId = call.id
                              /\ o.size = call.cart[i].size
                              /\ o.color = call.cart[i].color
                              /\ o.quantities = call.cart[i].quantity
                              /\ o.address = request[r].body.address

\* a delivery reconciled a cart of two different line items to the end
C10_Witness ==
    \E r \in Reqs :
        /\ Succeeded(r)
        /\ Len(cart[r]) = 2
        /\ cart[r][1] # cart[r][2]
        /\ Cardinality({o \in orders : o.req = r}) = 2

\* C11: paymentProcess writes no local state: no call of it, successful or
\* failed, changes the set of Orders or the stock of any product.
C11_paymentProcessWritesNoLocalState ==
    [][calls' # calls => (orders' = orders /\ stock' = stock)]_vars

\* a call created a customer and a session, another outcome being a call that
\* did not; the Orders and the stock are what they were at the start
C11_Witness ==
    /\ \E k \in DOMAIN calls : calls[k].status = 200 /\ calls[k].session # 0
    /\ orders = {PriorOrder}
    /\ stock = [p \in Products |-> InitStock]

\* C12: a call of paymentProcess whose buyer identifier is not that of a known
\* buyer answers 404 and has no side effect: it creates no customer and no
\* session and returns no URL of a session.
C12_UnknownBuyerIsNotFound ==
    [][(calls' # calls /\ calls'[Len(calls')].id \notin KnownUsers) =>
          /\ calls'[Len(calls')].status = 404
          /\ calls'[Len(calls')].customer = 0
          /\ calls'[Len(calls')].session = 0
          /\ customers' = customers
          /\ sessions' = sessions]_vars

\* a call for an unknown buyer was answered, and the provider has nothing
C12_Witness ==
    /\ \E k \in DOMAIN calls :
           calls[k].id \notin KnownUsers /\ calls[k].status = 404
    /\ customers = <<>>
    /\ sessions = <<>>

\* every callback of delivery r has ended
Ended(r) == \A i \in DOMAIN cb[r] : cb[r][i].pc \in {"done", "failed"}

C14_OtherTypesAreNoOps ==
    \A r \in Reqs :
        (request[r].sig = "valid" /\ request[r].body.type # Completed) =>
            /\ resp[r] = <<200>>
            /\ pc[r] = "done"
            /\ cart[r] = <<>>
            /\ cb[r] = <<>>
            /\ ~(\E o \in orders : o.req = r)
            /\ ~(\E w \in writes : w[1] = r)

\* a payment_intent.succeeded event and an event of an unlisted type were
\* both delivered, verified and acknowledged
C14_Witness ==
    /\ \E r \in Reqs :
           /\ request[r].sig = "valid"
           /\ request[r].body.type = "payment_intent.succeeded"
           /\ resp[r] = <<200>>
    /\ \E r \in Reqs :
           /\ request[r].sig = "valid"
           /\ request[r].body.type = "charge.succeeded"
           /\ resp[r] = <<200>>

\* the customer of delivery r's event carries no cart blob, or one that is not
\* JSON
NoIntent(r) ==
    LET customer == RetrieveCustomer(event[r].customer)
    IN  ~HasCart(customer) \/ ~Parsable(customer.metadata.cart)

\* C15: when the cart blob of the event's customer is absent or unparsable,
\* the whole event is aborted: the handler ends at the parse, no callback is
\* started, no Order is created and no stock is written for the delivery.
C15_NoIntentAbortsEvent ==
    \A r \in Reqs :
        (event[r].type = Completed /\ pc[r] # "retrieve" /\ NoIntent(r)) =>
            /\ pc[r] = "rejected"
            /\ cart[r] = <<>>
            /\ cb[r] = <<>>
            /\ ~(\E o \in orders : o.req = r)
            /\ ~(\E w \in writes : w[1] = r)

\* one delivery was aborted for an absent blob and another for a blob that is
\* not JSON
C15_Witness ==
    /\ \E r \in Reqs :
           /\ event[r].type = Completed
           /\ ~HasCart(RetrieveCustomer(event[r].customer))
           /\ pc[r] = "rejected"
    /\ \E r \in Reqs :
           /\ event[r].type = Completed
           /\ HasCart(RetrieveCustomer(event[r].customer))
           /\ ~Parsable(RetrieveCustomer(event[r].customer).metadata.cart)
           /\ pc[r] = "rejected"

\* C16: a line item whose product does not exist keeps the Order recorded for
\* it and gets no stock adjustment: its callback never reaches the update, no
\* stock write is recorded for it, and the step in which the lookup finds no
\* product ends the callback without an error, leaving the stock and the
\* response alone.  The batch does not fail: a delivery with such an item that
\* ran to the end has an Order for every line item and a stock write for
\* every line item whose product exists.
C16_DanglingProductIsSkipped ==
    [][\A r \in Reqs : \A i \in DOMAIN cb[r] :
          cart[r][i]._id \notin Products =>
              /\ cb'[r][i].pc # "update"
              /\ <<r, i>> \notin writes'
              /\ (cb[r][i].pc = "findProduct" /\ cb'[r][i].pc # "findProduct"
                      /\ fails' = fails) =>
                     /\ cb'[r][i].pc = "done"
                     /\ \E o \in orders' : o.req = r /\ o.idx = i
                     /\ stock' = stock
                     /\ resp' = resp
              /\ Succeeded(r)' =>
                     \A j \in DOMAIN cb'[r] :
                         /\ \E o \in orders' : o.req = r /\ o.idx = j
                         /\ cart'[r][j]._id \in Products => <<r, j>> \in writes']_vars

\* a delivery ran to the end with a line item of a product that does not
\* exist: the item has its Order and no stock write, its sibling has both
C16_Witness ==
    \E r \in Reqs : \E i \in DOMAIN cb[r] : \E j \in DOMAIN cb[r] :
        /\ Succeeded(r)
        /\ cart[r][i]._id \notin Products
        /\ \E o \in orders : o.req = r /\ o.idx = i /\ o.productId = cart[r][i]._id
        /\ <<r, i>> \notin writes
        /\ cart[r][j]._id \in Products
        /\ <<r, j>> \in writes

\* C17: the acknowledgment of a checkout-completed delivery is sent before
\* any Order of the delivery is created: whenever a callback of the delivery
\* has passed its first await, an Order of it exists or a stock write of it is
\* recorded, the first response of the delivery is the 200 already.
C17_AcknowledgedBeforeOrders ==
    \A r \in Reqs :
        (\/ \E i \in DOMAIN cb[r] : cb[r][i].pc # "findOrder"
         \/ \E o \in orders : o.req = r
         \/ \E w \in writes : w[1] = r)
            => (resp[r] # <<>> /\ resp[r][1] = 200)

\* an acknowledged delivery has created an Order and written a stock while
\* another of its callbacks is still at its first await
C17_Witness ==
    \E r \in Reqs :
        /\ resp[r] = <<200>>
        /\ \E o \in orders : o.req = r
        /\ \E w \in writes : w[1] = r
        /\ \E i \in DOMAIN cb[r] : cb[r][i].pc = "findOrder"

\* C18: checkOutSession attempts to write at most one response per delivery:
\* once the 400 or the acknowledgment is sent, no later step of the delivery
\* attempts another status or body.
C18_AtMostOneResponse == \A r \in Reqs : Len(resp[r]) <= 1

\* the (product, buyer) pairs that have an Order with review eligibility true
EligiblePairs == {<<o.productId, o.userId>> : o \in {x \in orders : x.review}}

\* C19: the Reconciler never originates review eligibility: no step adds a
\* pair to those that have an eligible Order, so every Order of a pair that
\* had no eligible Order before reconciliation started has eligibility false.
C19_EligibilityNeverOriginates ==
    [][/\ EligiblePairs' \subseteq EligiblePairs
       /\ \A o \in orders' :
              <<o.productId, o.userId>> # <<PriorOrder.productId, PriorOrder.userId>>
                  => ~o.review]_vars

\* two deliveries each created an Order for one pair that has no eligible
\* Order, and the Reconciler created an eligible Order for another pair
C19_Witness ==
    \E o1 \in orders : \E o2 \in orders :
        /\ o1.req # 0 /\ o2.req # 0 /\ o1.req # o2.req
        /\ o1.productId = o2.productId /\ o1.userId = o2.userId
        /\ <<o1.productId, o1.userId>> \notin EligiblePairs
        /\ \E o \in orders : o.req # 0 /\ o.review

\* C20: within one line item the stock write comes after the creation of the
\* Order: every stock write recorded for a delivery is of a line item whose
\* Order exists, so the stock writes of a delivery are never more than its
\* Orders, and a line item whose callback failed without an Order has no
\* stock write.
C20_StockWriteAfterOrder ==
    \A r \in Reqs :
        /\ \A w \in writes :
               w[1] = r => \E o \in orders : o.req = r /\ o.idx = w[2]
        /\ Cardinality({w \in writes : w[1] = r})
               <= Cardinality({o \in orders : o.req = r})
        /\ \A i \in DOMAIN cb[r] :
               (cb[r][i].pc = "failed" /\ ~(\E o \in orders : o.req = r /\ o.idx = i))
                   => <<r, i>> \notin writes

\* the creation of the Order failed for one line item, after its lookup had
\* found eligibility, and it has no stock write; a sibling has its Order and
\* its stock write
C20_Witness ==
    \E r \in Reqs : \E i \in DOMAIN cb[r] : \E j \in DOMAIN cb[r] :
        /\ cb[r][j].pc = "failed"
        /\ cb[r][j].reviewStatus
        /\ ~(\E o \in orders : o.req = r /\ o.idx = j)
        /\ <<r, j>> \notin writes
        /\ <<r, i>> \in writes
        /\ \E o \in orders : o.req = r /\ o.idx = i

====
